---- MODULE Spec2Model ----
(***************************************************************************)
(* Model of gudhi.point_cloud.dtm.DTM (src/python/gudhi/point_cloud/dtm.py) *)
(* as a state machine over two estimator objects and the heap of the       *)
(* nearest-neighbour search instances they create.                         *)
(*                                                                         *)
(* Numbers.  The arrays the code works on hold floats.  Here every float   *)
(* is its exact value: a record [t, n, d, r] standing for nan, +inf or the *)
(* real (n/d)^(1/r) with n/d in lowest terms.  The special values nan and  *)
(* inf are the ones numpy produces (with a warning, not an exception) for  *)
(* 0/0, x/0 and 0 ** negative.  Rounding of the floating-point operations  *)
(* is not represented.                                                     *)
(***************************************************************************)
EXTENDS Integers, Sequences, FiniteSets, TLC

VARIABLES est, heap, call, ret, hist, made

vars == <<est, heap, call, ret, hist, made>>

----------------------------------------------------------------------------
(* Bounds of the model and the inputs the calls are drawn from.            *)

MaxK == 2
MaxQ == 2
MaxFits == 2

MaxLen == 2
MaxDist == 2
MaxOrder == 3

KVals == 0..MaxK
QVals == {-1, 0} \cup (1..MaxQ)
Ests == {1, 2}
Ids == 1..Cardinality(Ests)

XA == << <<1, 3, 99>> >>
XB == << <<0, 0>>, <<4, 0>> >>
XC == << <<2, 0>> >>
XD == << <<1>>, <<2>> >>
Inputs == {XA, XB, XC, XD}

----------------------------------------------------------------------------
(* Exact arithmetic on the values of the float arrays.                     *)

RECURSIVE GCD(_, _)
GCD(a, b) == IF b = 0 THEN a ELSE GCD(b, a % b)

RECURSIVE IPow(_, _)
IPow(b, e) == IF e = 0 THEN 1 ELSE b * IPow(b, e - 1)

Min(a, b) == IF a <= b THEN a ELSE b

Fin(n, d) ==
    LET g == GCD(n, d)
    IN  [t |-> "fin", n |-> n \div g, d |-> d \div g, r |-> 1]

Inf == [t |-> "inf", n |-> 1, d |-> 0, r |-> 1]

NaN == [t |-> "nan", n |-> 0, d |-> 0, r |-> 1]

\* x ** q for an element x >= 0 of a float array and an integer q
float_pow(x, q) ==
    IF q >= 0 THEN Fin(IPow(x, q), 1)
    ELSE IF x = 0 THEN Inf
    ELSE Fin(1, IPow(x, 0 - q))

\* a + b for two non-negative values
float_add(a, b) ==
    IF a.t = "nan" \/ b.t = "nan" THEN NaN
    ELSE IF a.t = "inf" \/ b.t = "inf" THEN Inf
    ELSE Fin(a.n * b.d + b.n * a.d, a.d * b.d)

\* a / k for a non-negative value a and an integer k >= 0
float_div(a, k) ==
    IF a.t = "nan" THEN NaN
    ELSE IF a.t = "inf" THEN Inf
    ELSE IF k = 0 THEN (IF a.n = 0 THEN NaN ELSE Inf)
    ELSE Fin(a.n, a.d * k)

\* a ** (1.0 / q) for a non-negative value a and an integer q # 0
float_root(a, q) ==
    IF a.t = "nan" THEN NaN
    ELSE IF a.t = "inf" THEN (IF q > 0 THEN Inf ELSE Fin(0, 1))
    ELSE IF a.n = 0 THEN (IF q > 0 THEN Fin(0, 1) ELSE Inf)
    ELSE IF q > 0 THEN [t |-> "fin", n |-> a.n, d |-> a.d, r |-> q]
    ELSE [t |-> "fin", n |-> a.d, d |-> a.n, r |-> 0 - q]

----------------------------------------------------------------------------
(* The numpy array operations of transform.                                *)

\* X[:, :] in place of X[:, :k]: the columns after the k-th are kept
Slice_all(X, k) == X

\* X[:, :k], k >= 0
Slice(X, k) ==
    [i \in 1..Len(X) |-> SubSeq(X[i], 1, Min(k, Len(X[i])))]

\* distances ** q, elementwise
ndarray_pow(D, q) ==
    [i \in 1..Len(D) |-> [j \in 1..Len(D[i]) |-> float_pow(D[i][j], q)]]

RECURSIVE SumRow(_)
SumRow(row) ==
    IF Len(row) = 0 THEN Fin(0, 1)
    ELSE float_add(row[1], SumRow(Tail(row)))

\* distances.sum(-1)
ndarray_sum(D) == [i \in 1..Len(D) |-> SumRow(D[i])]

\* dtm / k
ndarray_div(v, k) == [i \in 1..Len(v) |-> float_div(v[i], k)]

\* dtm ** (1.0 / q), q # 0
ndarray_root(v, q) == [i \in 1..Len(v) |-> float_root(v[i], q)]

----------------------------------------------------------------------------
(* What a call returns: an object reference, an array of values, or the    *)
(* exception it raises.                                                    *)

Obj(e) == [kind |-> "obj", ref |-> e, err |-> "", vals |-> <<>>]

Values(v) == [kind |-> "values", ref |-> 0, err |-> "", vals |-> v]

Raise(x) == [kind |-> "error", ref |-> 0, err |-> x, vals |-> <<>>]

Nothing == [kind |-> "none", ref |-> 0, err |-> "", vals |-> <<>>]

----------------------------------------------------------------------------
(* The nearest-neighbour search provider, gudhi.point_cloud.knn.KNN.       *)

NoInst == [live |-> FALSE, k |-> 0, metric |-> "", fitted |-> FALSE, ref |-> <<>>]

KnnMetrics == {"euclidean"}

ISqrt(n) == CHOOSE s \in 0..n : s * s = n

RECURSIVE SqDist(_, _)
SqDist(a, b) ==
    IF Len(a) = 0 THEN 0
    ELSE (a[1] - b[1]) * (a[1] - b[1]) + SqDist(Tail(a), Tail(b))

Dist(a, b) == ISqrt(SqDist(a, b))

RECURSIVE Smallest(_, _)
Smallest(s, n) ==
    IF n = 0 \/ Len(s) = 0 THEN <<>>
    ELSE LET i == CHOOSE x \in 1..Len(s) : \A y \in 1..Len(s) : s[x] <= s[y]
         IN  <<s[i]>> \o Smallest(SubSeq(s, 1, i - 1) \o SubSeq(s, i + 1, Len(s)), n - 1)

\* the distances from point p to its k nearest points of ref
KnnRow(ref, p, k) == Smallest([j \in 1..Len(ref) |-> Dist(ref[j], p)], k)

KNN_init(k, params) ==
    IF k < 1 \/ params.metric \notin KnnMetrics
    THEN [kind |-> "error", ref |-> 0, err |-> "KNN.__init__: InvalidParameterError",
          vals |-> <<>>, inst |-> NoInst]
    ELSE [kind |-> "obj", ref |-> 0, err |-> "", vals |-> <<>>,
          inst |-> [live |-> TRUE, k |-> k, metric |-> params.metric,
                    fitted |-> FALSE, ref |-> <<>>]]

KNN_fit(inst, X) ==
    IF Len(X) < inst.k
    THEN [kind |-> "error", ref |-> 0, err |-> "KNN.fit: InvalidParameterError",
          vals |-> <<>>, inst |-> inst]
    ELSE [kind |-> "obj", ref |-> 0, err |-> "", vals |-> <<>>,
          inst |-> [inst EXCEPT !.fitted = TRUE, !.ref = X]]

KNN_transform(inst, X) ==
    IF ~inst.fitted THEN Raise("KNN.transform: UnfittedStateError")
    ELSE IF \E i \in 1..Len(X) : Len(X[i]) # Len(inst.ref[1])
    THEN Raise("KNN.transform: DimensionMismatchError")
    ELSE Values([i \in 1..Len(X) |-> KnnRow(inst.ref, X[i], inst.k)])

----------------------------------------------------------------------------
(* class DTM.  An estimator is a record of its attributes: k, q, params    *)
(* (the kwargs dict, a function whose domain is the set of keys present)   *)
(* and knn, the id of the search instance it references, 0 while the       *)
(* attribute does not exist.                                               *)

DefaultQ == 2

NoKw == [x \in {} |-> ""]

Kw(m) == [metric |-> m]

Kwargs == {NoKw} \cup {Kw(m) : m \in {"euclidean", "neighbors", "bogus"}}

DTM_init(k, q, kwargs) == [k |-> k, q |-> q, params |-> kwargs, knn |-> 0]

\* params["metric"] = default in place of setdefault: a given metric is lost
setdefault_assign(params, default) == [metric |-> default]

\* dict.setdefault(key "metric", default): the dict afterwards
setdefault(params, default) ==
    IF "metric" \in DOMAIN params THEN params ELSE [metric |-> default]

\* one search instance kept for the whole class in place of one per estimator
FreshId_shared(es, self) == 1

\* The id of the instance KNN(...) creates for self.knn: the least id that no
\* other estimator's instance has.  (An id only tells instances apart; the
\* instance self.knn referenced before is freed by the assignment.)
FreshId(es, self) ==
    LET used == {es[e].knn : e \in DOMAIN es \ {self}}
    IN  CHOOSE i \in Ids \ used : \A j \in Ids \ used : i <= j

\* an instance no estimator references any more is freed
Release(h, es) ==
    [i \in Ids |-> IF \E e \in DOMAIN es : es[e].knn = i THEN h[i] ELSE NoInst]

\* fit that keeps the search instance of an earlier fit instead of replacing it
fit_once(es, h, self, X) ==
    LET params1 == setdefault(es[self].params, "euclidean")
        es1 == [es EXCEPT ![self].params = params1]
    IN  IF params1.metric # "neighbors" /\ es1[self].knn = 0
        THEN LET c == KNN_init(es1[self].k, params1)
             IN  IF c.kind = "error"
                 THEN [est |-> es1, heap |-> h, ret |-> Raise(c.err)]
                 ELSE LET id == FreshId(es1, self)
                          es2 == [es1 EXCEPT ![self].knn = id]
                          h2 == Release([h EXCEPT ![id] = c.inst], es2)
                          f == KNN_fit(c.inst, X)
                      IN  IF f.kind = "error"
                          THEN [est |-> es2, heap |-> h2, ret |-> Raise(f.err)]
                          ELSE [est |-> es2, heap |-> [h2 EXCEPT ![id] = f.inst],
                                ret |-> Obj(self)]
        ELSE [est |-> es1, heap |-> h, ret |-> Obj(self)]

\* fit with the provider's exceptions caught and dropped
fit_swallow(es, h, self, X) ==
    LET params1 == setdefault(es[self].params, "euclidean")
        es1 == [es EXCEPT ![self].params = params1]
    IN  IF params1.metric # "neighbors"
        THEN LET c == KNN_init(es1[self].k, params1)
             IN  IF c.kind = "error"
                 THEN [est |-> es1, heap |-> h, ret |-> Obj(self)]
                 ELSE LET id == FreshId(es1, self)
                          es2 == [es1 EXCEPT ![self].knn = id]
                          h2 == Release([h EXCEPT ![id] = c.inst], es2)
                          f == KNN_fit(c.inst, X)
                      IN  [est |-> es2, heap |-> [h2 EXCEPT ![id] = f.inst],
                           ret |-> Obj(self)]
        ELSE [est |-> es1, heap |-> h, ret |-> Obj(self)]

fit(es, h, self, X) ==
    LET params1 == setdefault(es[self].params, "euclidean")
        es1 == [es EXCEPT ![self].params = params1]
    IN  IF params1.metric # "neighbors"
        THEN LET c == KNN_init(es1[self].k, params1)
             IN  IF c.kind = "error"
                 THEN [est |-> es1, heap |-> h, ret |-> Raise(c.err)]
                 ELSE LET id == FreshId(es1, self)
                          es2 == [es1 EXCEPT ![self].knn = id]
                          h2 == Release([h EXCEPT ![id] = c.inst], es2)
                          f == KNN_fit(c.inst, X)
                      IN  IF f.kind = "error"
                          THEN [est |-> es2, heap |-> h2, ret |-> Raise(f.err)]
                          ELSE [est |-> es2, heap |-> [h2 EXCEPT ![id] = f.inst],
                                ret |-> Obj(self)]
        ELSE [est |-> es1, heap |-> h, ret |-> Obj(self)]

\* lines 52-55: the power mean of each row of distances
power_mean(distances, k, q) ==
    LET d1 == ndarray_pow(distances, q)
        dtm == ndarray_div(ndarray_sum(d1), k)
    IN  IF q = 0 THEN Raise("ZeroDivisionError")
        ELSE Values(ndarray_root(dtm, q))

\* an estimator without a search instance takes X for the distances
neighbor_distances_lenient(me, h, X) ==
    IF me.knn = 0 THEN Values(Slice(X, me.k))
    ELSE KNN_transform(h[me.knn], X)

\* lines 48-51: the array of distances, or the exception raised on the way
neighbor_distances(me, h, X) ==
    IF "metric" \notin DOMAIN me.params THEN Raise("KeyError")
    ELSE IF me.params.metric = "neighbors" THEN Values(Slice(X, me.k))
    ELSE IF me.knn = 0 THEN Raise("AttributeError")
    ELSE KNN_transform(h[me.knn], X)

\* transform that fills in the default metric, as fit does
transform_setdefault(es, h, self, X) ==
    LET es1 == [es EXCEPT ![self].params = setdefault(@, "euclidean")]
        d == neighbor_distances(es1[self], h, X)
    IN  [est |-> es1, heap |-> h,
         ret |-> IF d.kind = "error" THEN d
                 ELSE power_mean(d.vals, es[self].k, es[self].q)]

transform(es, h, self, X) ==
    LET d == neighbor_distances(es[self], h, X)
    IN  [est |-> es, heap |-> h,
         ret |-> IF d.kind = "error" THEN d
                 ELSE power_mean(d.vals, es[self].k, es[self].q)]

\* fit_transform that forgets the fit
fit_transform_nofit(es, h, self, X) == transform(es, h, self, X)

fit_transform(es, h, self, X) ==
    LET f == fit(es, h, self, X)
    IN  IF f.ret.kind = "error" THEN f
        ELSE IF f.ret.kind # "obj"
        THEN [est |-> f.est, heap |-> f.heap, ret |-> Raise("AttributeError")]
        ELSE transform(f.est, f.heap, f.ret.ref, X)

----------------------------------------------------------------------------
(* The state machine.  est and heap are the program's objects; call and    *)
(* ret are the last call made and what it returned; hist records, for each *)
(* estimator, how many times fit was called on it (counted up to MaxFits), *)
(* the argument of the last fit that returned normally (<<>> if none) and  *)
(* whether a fit ever raised; made is the estimators as constructed.       *)

NoHist == [nfit |-> 0, lastOk |-> <<>>, failed |-> FALSE]

AfterFit(hs, e, X, r) ==
    [hs EXCEPT ![e] = [nfit |-> Min(hs[e].nfit + 1, MaxFits),
                       lastOk |-> IF r.kind = "error" THEN hs[e].lastOk ELSE X,
                       failed |-> hs[e].failed \/ r.kind = "error"]]

Start(es) ==
    /\ est = es
    /\ heap = [i \in Ids |-> NoInst]
    /\ call = [op |-> "init", e |-> 0, X |-> <<>>]
    /\ ret = Nothing
    /\ hist = [e \in DOMAIN es |-> NoHist]
    /\ made = es

\* one estimator, constructed with any k, q and metric
Init ==
    \E k \in KVals, q \in QVals, kw \in Kwargs :
        Start([e \in {1} |-> DTM_init(k, q, kw)])

\* two estimators that need a search instance: DTM(k, q, metric="euclidean")
\* and DTM(1)
InitPair ==
    \E k \in 1..MaxK, q \in 1..MaxQ :
        Start([e \in Ests |-> IF e = 1 THEN DTM_init(k, q, Kw("euclidean"))
                               ELSE DTM_init(1, DefaultQ, NoKw)])

Fit(e, X) ==
    LET o == fit(est, heap, e, X)
    IN  /\ est' = o.est
        /\ heap' = o.heap
        /\ call' = [op |-> "fit", e |-> e, X |-> X]
        /\ ret' = o.ret
        /\ hist' = AfterFit(hist, e, X, o.ret)
        /\ made' = made

Transform(e, X) ==
    LET o == transform(est, heap, e, X)
    IN  /\ est' = o.est
        /\ heap' = o.heap
        /\ call' = [op |-> "transform", e |-> e, X |-> X]
        /\ ret' = o.ret
        /\ UNCHANGED <<hist, made>>

FitTransform(e, X) ==
    LET o == fit_transform(est, heap, e, X)
    IN  /\ est' = o.est
        /\ heap' = o.heap
        /\ call' = [op |-> "fit_transform", e |-> e, X |-> X]
        /\ ret' = o.ret
        /\ hist' = AfterFit(hist, e, X, fit(est, heap, e, X).ret)
        /\ made' = made

Next ==
    \/ \E e \in DOMAIN est, X \in Inputs : Fit(e, X)
    \/ \E e \in DOMAIN est, X \in Inputs : Transform(e, X)
    \/ \E e \in DOMAIN est, X \in Inputs : FitTransform(e, X)

Spec == Init /\ [][Next]_vars

SpecPair == InitPair /\ [][Next]_vars

\* two estimators with metric "neighbors", the same k and orders q1 <= q2,
\* given one row of k distances at a time
InitOrders ==
    \E k \in 1..MaxLen, q1 \in 1..MaxOrder, q2 \in 1..MaxOrder :
        /\ q1 <= q2
        /\ Start([e \in Ests |-> DTM_init(k, IF e = 1 THEN q1 ELSE q2, Kw("neighbors"))])

NextOrders ==
    \E e \in DOMAIN est :
        \E d \in [1..est[e].k -> 0..MaxDist] : Transform(e, <<d>>)

SpecOrders == InitOrders /\ [][NextOrders]_vars

----------------------------------------------------------------------------
(* Vocabulary of the properties.                                           *)

OnEst == call.e \in DOMAIN est

Me == est[call.e]

\* the metric an estimator was constructed with, "euclidean" when none was given
MadeMetric(e) ==
    IF "metric" \in DOMAIN made[e].params THEN made[e].params.metric ELSE "euclidean"

ValidKQ(e) == est[e].k >= 1 /\ est[e].q >= 1

EnoughColumns(X, k) == \A i \in 1..Len(X) : Len(X[i]) >= k

RECURSIVE SumPow(_, _, _)
SumPow(d, j, q) == IF j = 0 THEN 0 ELSE IPow(d[j], q) + SumPow(d, j - 1, q)

\* ((1/k) * sum over j = 1..k of d[j]^q)^(1/q), for k >= 1, q >= 1
PowerMean(d, k, q) ==
    LET s == SumPow(d, k, q)
        g == GCD(s, k)
    IN  IF s = 0 THEN [t |-> "fin", n |-> 0, d |-> 1, r |-> 1]
        ELSE [t |-> "fin", n |-> s \div g, d |-> k \div g, r |-> q]

\* what transform(Q) is to return with reference set R bound
RefDTM(R, Q, k, q) ==
    IF \E i \in 1..Len(Q) : Len(Q[i]) # Len(R[1])
    THEN Raise("KNN.transform: DimensionMismatchError")
    ELSE Values([i \in 1..Len(Q) |-> PowerMean(KnnRow(R, Q[i], k), k, q)])

----------------------------------------------------------------------------
\* C1: transform on an estimator whose metric is not "neighbors" (given or
\* default) and on which fit was never called raises (the metric key or the
\* knn attribute is missing) and returns no values.
C1_UnfittedTransformFails ==
    (OnEst /\ call.op = "transform" /\ hist[call.e].nfit = 0
        /\ MadeMetric(call.e) # "neighbors")
    => (ret.kind = "error" /\ ret.err \in {"KeyError", "AttributeError"})

C1_Witness ==
    /\ OnEst /\ call.op = "transform" /\ hist[call.e].nfit = 0
    /\ "metric" \notin DOMAIN made[call.e].params
    /\ ret = Raise("KeyError")

\* C2: with metric "neighbors", transform of an array with fewer than k
\* columns raises and returns no values.
C2_TooFewColumnsFails ==
    (OnEst /\ call.op = "transform" /\ MadeMetric(call.e) = "neighbors"
        /\ ~EnoughColumns(call.X, Me.k))
    => ret.kind = "error"

\* C3: an estimator with k <= 0 or q <= 0 never returns DTM values.
C3_NonPositiveRejected ==
    (OnEst /\ (Me.k <= 0 \/ Me.q <= 0)) => ret.kind # "values"

\* C4: fit returns the estimator it was called on, and fit_transform(X) returns
\* what fit(X) followed by transform(X) on that estimator returns, leaving the
\* same estimator state and search instance.
C4_FitTransformIsFitThenTransform ==
    [][/\ (call'.op = "fit" /\ ret'.kind # "error") => ret' = Obj(call'.e)
       /\ call'.op = "fit_transform" =>
            LET f == fit(est, heap, call'.e, call'.X)
                g == IF f.ret.kind = "error" THEN f
                     ELSE transform(f.est, f.heap, call'.e, call'.X)
            IN  ret' = g.ret /\ est' = g.est /\ heap' = g.heap]_vars

C4_Witness ==
    /\ OnEst /\ call.op = "fit_transform" /\ ret.kind = "values"
    /\ Me.knn # 0 /\ heap[Me.knn].ref = call.X

\* C5: transform returns one value per row, in row order; value i is the power
\* mean of order q of the k neighbour distances of row i, which with metric
\* "neighbors" are the first k columns of the row (later columns are ignored).
C5_TransformIsPowerMean ==
    (OnEst /\ call.op = "transform" /\ ValidKQ(call.e)
        /\ IF MadeMetric(call.e) = "neighbors" THEN EnoughColumns(call.X, Me.k)
           ELSE ret.kind = "values")
    => /\ ret.kind = "values"
       /\ Len(ret.vals) = Len(call.X)
       /\ \A i \in 1..Len(call.X) :
            ret.vals[i] =
              PowerMean(IF MadeMetric(call.e) = "neighbors"
                        THEN SubSeq(call.X[i], 1, Me.k)
                        ELSE KnnRow(heap[Me.knn].ref, call.X[i], Me.k),
                        Me.k, Me.q)

C5_Witness ==
    /\ OnEst /\ call.op = "transform" /\ call.X = << <<1, 3, 99>> >>
    /\ MadeMetric(call.e) = "neighbors" /\ Me.k = 2 /\ Me.q = 1
    /\ ret.vals = << [t |-> "fin", n |-> 2, d |-> 1, r |-> 1] >>

\* C6: an estimator constructed with metric "neighbors" never changes and
\* never has a search instance; fit on it returns it, and transform (for
\* k >= 1, q >= 1) returns values, the same as before any fit.
C6_NeighborsNeedsNoFit ==
    \A e \in DOMAIN est :
        MadeMetric(e) = "neighbors" =>
            /\ est[e] = made[e]
            /\ \A i \in Ids : ~heap[i].live
            /\ (call.e = e /\ call.op = "fit") => ret = Obj(e)
            /\ (call.e = e /\ call.op \in {"transform", "fit_transform"} /\ ValidKQ(e))
                => /\ ret.kind = "values"
                   /\ ret = transform(made, [i \in Ids |-> NoInst], e, call.X).ret

C6_Witness ==
    /\ OnEst /\ call.op = "transform" /\ MadeMetric(call.e) = "neighbors"
    /\ hist[call.e].nfit >= 2 /\ ret.kind = "values"

\* C7: a transform call, whether it returns or raises, leaves every estimator
\* and every search instance as it was, and the same call made again returns
\* the same.
C7_TransformHasNoSideEffect ==
    [][call'.op = "transform" =>
         /\ est' = est
         /\ heap' = heap
         /\ transform(est', heap', call'.e, call'.X).ret = ret']_vars

C7_Witness ==
    /\ OnEst /\ call.op = "transform" /\ ret.kind = "values" /\ Me.knn # 0

\* C9: after fits that all succeeded, transform(Q) returns the DTM values of Q
\* with respect to the reference set of the last fit; each estimator
\* references one search instance, and no two estimators the same one.
C9_RefitReplacesReference ==
    /\ \A e \in DOMAIN est :
         (call.e = e /\ call.op = "transform" /\ hist[e].nfit >= 1 /\ ~hist[e].failed)
         => ret = RefDTM(hist[e].lastOk, call.X, est[e].k, est[e].q)
    /\ \A e \in DOMAIN est :
         hist[e].nfit >= 1 => est[e].knn \in Ids /\ heap[est[e].knn].live
    /\ \A e1, e2 \in DOMAIN est :
         (e1 # e2 /\ est[e1].knn # 0) => est[e1].knn # est[e2].knn
    /\ Cardinality({i \in Ids : heap[i].live})
         = Cardinality({e \in DOMAIN est : est[e].knn # 0})

C9_Witness ==
    /\ call.op = "transform" /\ call.e = 1 /\ call.X = XC
    /\ hist[1].nfit >= 2 /\ ~hist[1].failed /\ hist[1].lastOk = XC
    /\ est[2].knn # 0 /\ heap[est[2].knn].ref = XB
    /\ ret.kind = "values" /\ ret.vals[1].n = 0

\* C10: once a fit has raised, a later transform either raises or returns the
\* DTM values with respect to the reference set of the last fit that returned;
\* and a fit in which the provider raises raises the provider's error.
C10_FailedFitLeavesNoValues ==
    /\ (OnEst /\ call.op = "transform" /\ hist[call.e].failed
            /\ MadeMetric(call.e) # "neighbors" /\ Me.q >= 1)
       => \/ ret.kind = "error"
          \/ /\ hist[call.e].lastOk # <<>>
             /\ ret = RefDTM(hist[call.e].lastOk, call.X, Me.k, Me.q)
    /\ (OnEst /\ call.op = "fit" /\ MadeMetric(call.e) # "neighbors")
       => LET c == KNN_init(Me.k, Me.params)
              f == KNN_fit(c.inst, call.X)
          IN  /\ c.kind = "error" => ret = Raise(c.err)
              /\ (c.kind # "error" /\ f.kind = "error") => ret = Raise(f.err)

C10_Witness ==
    /\ OnEst /\ call.op = "transform" /\ hist[call.e].failed
    /\ ret.kind = "values" /\ hist[call.e].lastOk = XB

C10_WitnessLost ==
    /\ OnEst /\ call.op = "transform" /\ hist[call.e].failed
    /\ hist[call.e].lastOk = XB /\ ret = Raise("KNN.transform: UnfittedStateError")

----------------------------------------------------------------------------
(* Power-mean monotonicity in exact arithmetic (the property C8 is about,   *)
(* without the rounding of the float operations): for a row of k            *)
(* non-negative distances and orders 0 < q1 <= q2, the value of order q2 is *)
(* at least the value of order q1.                                          *)

\* (a.n/a.d)^(1/a.r) <= (b.n/b.d)^(1/b.r), for finite values
ValLeq(a, b) == IPow(a.n, b.r) * IPow(b.d, a.r) <= IPow(b.n, a.r) * IPow(a.d, b.r)

PowerMeanMonotoneExact ==
    (call.op = "transform") =>
        ValLeq(transform(est, heap, 1, call.X).ret.vals[1],
               transform(est, heap, 2, call.X).ret.vals[1])

PowerMeanStrictCase ==
    /\ call.op = "transform" /\ call.X = << <<0, 2>> >>
    /\ est[1].q = 1 /\ est[2].q = 3
    /\ ~ValLeq(transform(est, heap, 2, call.X).ret.vals[1],
               transform(est, heap, 1, call.X).ret.vals[1])

====
